---- MODULE Spec2Model ----
(***************************************************************************)
(* bulk_visit_performance.cpp: a benchmark that times single-key visits    *)
(* against bulk visits of a boost::concurrent_flat_map<int,int>.           *)
(*                                                                         *)
(* Three parts of the program are modelled:                                *)
(*   - visit_test / visit_tester / regular_visitor / bulk_visitor          *)
(*     (specifications Spec and SpecBulk),                                 *)
(*   - measure, pause_timing, resume_timing (specification SpecMeasure),   *)
(*   - the trimmed mean at the end of measure on synthetic trial values    *)
(*     (specification SpecAgg).                                            *)
(***************************************************************************)
EXTENDS Integers, Sequences, FiniteSets, TLC

(***************************************************************************)
(* Bounds of the model.                                                    *)
(***************************************************************************)
\* Map::bulk_visit_size, the capacity of bulk_visitor::keys (line 103). The
\* library's value is scaled down so that full batches happen for small N.
BulkVisitSize == 2
\* The sweep of line 148 is scaled down to the sizes 1..MaxN.
MaxN == 5
\* The generator's result_type is scaled down to 0..RngMax.
RngMax == 3
\* Number of times one measure call invokes the timed operation in Spec.
MaxRuns == 2
\* Number of operator()/flush() calls made on one bulk_visitor in SpecBulk.
MaxCalls == 5

\* One step of the model's clock, in milliseconds.
TickMs == 150
\* The longest one call of the timed operation runs, in clock steps.
MaxRunTicks == 2
\* The longest a pause lasts, in clock steps.
MaxPauseTicks == 1
\* Calls of the timed operation, in one measure call, that run for more than
\* one clock step or pause the timing.
MaxEvents == 2
\* The synthetic trial values of SpecAgg are 1..MaxTrialValue.
MaxTrialValue == 2

(***************************************************************************)
(* Program constants.                                                      *)
(***************************************************************************)
\* splitmix64_urng gen(282472u), line 131
seed == 282472
\* static const int num_trials=10, line 21
num_trials == 10
\* static const milliseconds min_time_per_trial(200), line 22
min_time_per_trial == 200
\* duration_cast<duration<double>>: seconds, from the clock's unit (line 36)
MsPerSecond == 1000
\* trials.begin()+2, trials.end()-2, trials.size()-4 (lines 40-41)
Trim == 2

VARIABLES
  \* ---- visit_test / visit_tester / visitors
  pc,        \* position in visit_test and visit_tester::operator()
  sweep,     \* number of sizes of the sweep (line 148) already handled
  N,         \* the current dataset size
  m,         \* the set of keys held by the concurrent_flat_map m
  strategy,  \* 1: Visitor1 (regular_visitor), 2: Visitor2 (bulk_visitor)
  runsDone,  \* invocations of the timed operation by the current measure call
  gen,       \* splitmix64_urng gen: its seed and the number of outputs taken
  stream,    \* the outputs of the generator seeded with `seed`, as far as seen
  idx,       \* the loop variable i of line 134
  visit,     \* the visitor object `visit` of line 132
  calls,     \* history: the visit calls issued on m by the current visitor
  drawn,     \* history: the keys drawn by the current invocation
  wrote,     \* history: the index of the last write keys[i++] (-1: none yet)
  prev,      \* history: the last visitor operation and the state it started in
  ndone,     \* history: operator()/flush() calls made so far (SpecBulk)
  ret,       \* history: last value returned by visit_tester, per strategy
  seqs       \* history: the key sequences of the invocations completed for N

visitVars == <<pc, sweep, N, m, strategy, runsDone, gen, stream, idx, visit,
               calls, drawn, wrote, prev, ndone, ret, seqs>>

VARIABLES
  \* ---- measure, pause_timing, resume_timing
  mpc,            \* position in measure
  now,            \* what high_resolution_clock::now() returns, in ms
  measure_start,  \* the global measure_start
  measure_pause,  \* the global measure_pause
  trial,          \* the loop variable i of line 25
  runs,           \* measure: runs
  t2,             \* measure: t2
  trials,         \* measure: trials, the entries as exact fractions
  result,         \* the value measure returns
  spent,          \* clock steps the current call of f has run for, pauses apart
  pspent,         \* clock steps the current pause has lasted
  events,         \* calls of f that ran long or paused, so far
  trialBegin,     \* history: the clock when the current trial started
  pauseAt,        \* history: the clock when the current pause started
  pausedSum,      \* history: total length of the pauses of the current trial
  npauses,        \* history: number of pauses resumed in the current trial
  recorded,       \* history: runs and elapsed time of each recorded trial
  unsorted        \* history: the trials as they were before std::sort

measureVars == <<mpc, now, measure_start, measure_pause, trial, runs, t2, trials,
                 result, spent, pspent, events, trialBegin, pauseAt, pausedSum,
                 npauses, recorded, unsorted>>

vars == <<visitVars, measureVars>>

(***************************************************************************)
(* The container, as the program uses it (external: boost).                *)
(***************************************************************************)
\* m.visit(k, f): the number of elements visited, 1 if k is present, else 0.
SingleVisit(map, k) == IF k \in map THEN 1 ELSE 0

\* m.visit(first, last, f): the number of keys of the range that are present.
BulkVisit(map, ks) == Cardinality({j \in 1..Len(ks) : ks[j] \in map})

(***************************************************************************)
(* The generator and the distribution (external: boost, standard library). *)
(***************************************************************************)
\* splitmix64_urng gen(282472u): a generator that has produced no output yet.
NewGen == [seed |-> seed, n |-> 0]

\* The outputs the next call gen() can produce: the generator is
\* deterministic, so an output already seen at this position is repeated;
\* a position never seen before may hold any value of the result type.
GenOutputs(g) == IF g.n < Len(stream) THEN {stream[g.n + 1]} ELSE 0..RngMax

\* std::uniform_int_distribution<>{a,b}: maps the generator's output onto the
\* CLOSED interval [a,b] (here by scaling, as libstdc++ does).
Dist(a, b, raw) == a + ((raw * (b - a + 1)) \div (RngMax + 1))

\* Mutant of DistOfN: the upper bound is 2*N.
MutDistOfNWide(n, raw) == Dist(0, 2 * n, raw)

\* distribution_type{0,2*N-1} of line 132
DistOfN(n, raw) == Dist(0, 2 * n - 1, raw)

(***************************************************************************)
(* regular_visitor and bulk_visitor.                                       *)
(***************************************************************************)
Indeterminate == "indeterminate"

\* regular_visitor(m_, dist_): res=0
NewRegular == [kind |-> "regular", res |-> 0, i |-> 0, keys |-> <<>>]

\* bulk_visitor(m_, dist_): res=0, i=0, keys not initialised
NewBulk == [kind |-> "bulk", res |-> 0, i |-> 0,
            keys |-> [k \in 0..(BulkVisitSize - 1) |-> Indeterminate]]

\* Visitor<Map,distribution_type> visit{m, ...} for Visitor1 / Visitor2
NewVisitor(s) == IF s = 1 THEN NewRegular ELSE NewBulk

\* The range [keys.begin(), keys.begin()+i) as a sequence.
KeysRange(v) == [j \in 1..v.i |-> v.keys[j - 1]]

\* The visitor together with what the model records about its calls:
\* v the visitor object, log the visit calls issued on m so far (each the
\* sequence of keys it covers), wrote the index of the last keys[i++] write.
World(v, log, wr) == [v |-> v, log |-> log, wrote |-> wr]

\* regular_visitor::operator(): res+=(int)m.visit(dist(gen),...)  (line 69)
RegularCall(w, k) ==
  [w EXCEPT !.v.res = @ + SingleVisit(m, k), !.log = Append(@, <<k>>)]

\* Mutant of BulkFlush: the hit count is assigned instead of accumulated.
MutBulkFlushAssign(w) ==
  [w EXCEPT !.v.res = BulkVisit(m, KeysRange(w.v)),
            !.v.i = 0,
            !.log = Append(@, KeysRange(w.v))]

\* Mutant of BulkFlush: every call counts one hit too many.
MutBulkFlushPlusOne(w) ==
  [w EXCEPT !.v.res = @ + BulkVisit(m, KeysRange(w.v)) + 1,
            !.v.i = 0,
            !.log = Append(@, KeysRange(w.v))]

\* bulk_visitor::flush(): res+=(int)m.visit(keys.begin(),keys.begin()+i,...);
\* i=0;  (lines 94-98)
BulkFlush(w) ==
  [w EXCEPT !.v.res = @ + BulkVisit(m, KeysRange(w.v)),
            !.v.i = 0,
            !.log = Append(@, KeysRange(w.v))]

\* bulk_visitor::operator(), first statement: keys[i++]=dist(gen)  (line 90)
BulkStore(w, k) ==
  [w EXCEPT !.v.keys[w.v.i] = k, !.v.i = @ + 1, !.wrote = w.v.i]

\* Mutant of BulkFull: the buffer counts as full one key early.
MutBulkFullEarly(v) == v.i = BulkVisitSize - 1

\* Mutant of BulkFull: the buffer counts as full one key late.
MutBulkFullLate(v) == v.i = BulkVisitSize + 1

\* bulk_visitor::operator(), the condition of line 91: i==N
BulkFull(v) == v.i = BulkVisitSize

\* bulk_visitor::operator()  (lines 88-92)
BulkCall(w, k) ==
  LET x == BulkStore(w, k) IN IF BulkFull(x.v) THEN BulkFlush(x) ELSE x

\* visit(gen) for either visitor, k the key dist(gen) produced
VisitorCall(w, k) ==
  IF w.v.kind = "regular" THEN RegularCall(w, k) ELSE BulkCall(w, k)

\* Mutant of VisitorFlush: the final flush does nothing for either visitor.
MutVisitorFlushNone(w) == w

\* visit.flush() for either visitor; regular_visitor::flush is empty (line 72)
VisitorFlush(w) == IF w.v.kind = "regular" THEN w ELSE BulkFlush(w)

(***************************************************************************)
(* Exact fractions, standing for the doubles of measure.                   *)
(***************************************************************************)
RECURSIVE Gcd(_, _)
Gcd(a, b) == IF b = 0 THEN a ELSE Gcd(b, a % b)

\* The fraction n/d in lowest terms, d > 0.
Rat(n, d) == LET g == Gcd(n, d) IN
  IF g = 0 THEN [num |-> 0, den |-> 1] ELSE [num |-> n \div g, den |-> d \div g]

RatAdd(x, y) == Rat(x.num * y.den + y.num * x.den, x.den * y.den)

RatLess(x, y) == x.num * y.den < y.num * x.den

(***************************************************************************)
(* measure, pause_timing, resume_timing.                                   *)
(***************************************************************************)
\* std::array<double,num_trials> trials, not initialised (line 23)
NewTrials == [j \in 1..num_trials |-> Indeterminate]

\* No measure call is under way.
MeasureIdle ==
  /\ mpc = "idle"
  /\ now = 0
  /\ measure_start = 0
  /\ measure_pause = 0
  /\ trial = 0
  /\ runs = 0
  /\ t2 = Indeterminate
  /\ trials = NewTrials
  /\ result = Indeterminate
  /\ spent = 0
  /\ pspent = 0
  /\ events = 0
  /\ trialBegin = 0
  /\ pauseAt = 0
  /\ pausedSum = 0
  /\ npauses = 0
  /\ recorded = <<>>
  /\ unsorted = <<>>

\* measure(f) is entered: i=0 (lines 17-25)
MeasureInit ==
  /\ mpc = "start"
  /\ now = 0
  /\ measure_start = 0
  /\ measure_pause = 0
  /\ trial = 0
  /\ runs = 0
  /\ t2 = Indeterminate
  /\ trials = NewTrials
  /\ result = Indeterminate
  /\ spent = 0
  /\ pspent = 0
  /\ events = 0
  /\ trialBegin = 0
  /\ pauseAt = 0
  /\ pausedSum = 0
  /\ npauses = 0
  /\ recorded = <<>>
  /\ unsorted = <<>>

\* A trial starts: runs=0; measure_start=now()  (lines 26-30)
TrialStart ==
  /\ mpc = "start"
  /\ runs' = 0
  /\ t2' = Indeterminate
  /\ measure_start' = now
  /\ trialBegin' = now
  /\ pausedSum' = 0
  /\ npauses' = 0
  /\ mpc' = "call"
  /\ UNCHANGED <<now, measure_pause, trial, trials, result, spent, pspent, events,
                 pauseAt, recorded, unsorted>>
  /\ UNCHANGED visitVars

\* res=f(): f is called (line 32)
FCall ==
  /\ mpc = "call"
  /\ spent' = 0
  /\ mpc' = "in_f"
  /\ UNCHANGED <<now, measure_start, measure_pause, trial, runs, t2, trials,
                 result, pspent, events, trialBegin, pauseAt, pausedSum, npauses,
                 recorded, unsorted>>
  /\ UNCHANGED visitVars

\* The clock advances while f runs. A call that runs for a second step is
\* one of the at most MaxEvents long or pausing calls.
TickRunning ==
  /\ mpc = "in_f"
  /\ spent < MaxRunTicks
  /\ spent = 1 => events < MaxEvents
  /\ now' = now + TickMs
  /\ spent' = spent + 1
  /\ events' = IF spent = 1 THEN events + 1 ELSE events
  /\ UNCHANGED <<mpc, measure_start, measure_pause, trial, runs, t2, trials,
                 result, pspent, trialBegin, pauseAt, pausedSum, npauses, recorded, unsorted>>
  /\ UNCHANGED visitVars

\* The clock advances while the timing is paused.
TickPaused ==
  /\ mpc = "paused"
  /\ pspent < MaxPauseTicks
  /\ now' = now + TickMs
  /\ pspent' = pspent + 1
  /\ UNCHANGED <<mpc, measure_start, measure_pause, trial, runs, t2, trials,
                 result, spent, events, trialBegin, pauseAt, pausedSum, npauses,
                 recorded, unsorted>>
  /\ UNCHANGED visitVars

\* f calls pause_timing(): measure_pause=now()  (lines 44-47)
pause_timing ==
  /\ mpc = "in_f"
  /\ events < MaxEvents
  /\ events' = events + 1
  /\ measure_pause' = now
  /\ pauseAt' = now
  /\ pspent' = 0
  /\ mpc' = "paused"
  /\ UNCHANGED <<now, measure_start, trial, runs, t2, trials, result, spent,
                 trialBegin, pausedSum, npauses, recorded, unsorted>>
  /\ UNCHANGED visitVars

\* Mutant of resume_timing: the interval is taken with the wrong sign.
MutResumeBackwards ==
  /\ mpc = "paused"
  /\ measure_start' = measure_start + (measure_pause - now)
  /\ pausedSum' = pausedSum + (now - pauseAt)
  /\ npauses' = npauses + 1
  /\ mpc' = "in_f"
  /\ UNCHANGED <<now, measure_pause, trial, runs, t2, trials, result, spent,
                 pspent, events, trialBegin, pauseAt, recorded, unsorted>>
  /\ UNCHANGED visitVars

\* f calls resume_timing(): measure_start+=now()-measure_pause  (lines 49-52)
resume_timing ==
  /\ mpc = "paused"
  /\ measure_start' = measure_start + (now - measure_pause)
  /\ pausedSum' = pausedSum + (now - pauseAt)
  /\ npauses' = npauses + 1
  /\ mpc' = "in_f"
  /\ UNCHANGED <<now, measure_pause, trial, runs, t2, trials, result, spent,
                 pspent, events, trialBegin, pauseAt, recorded, unsorted>>
  /\ UNCHANGED visitVars

\* f returns: ++runs; t2=now()  (lines 32-34)
FReturn ==
  /\ mpc = "in_f"
  /\ spent >= 1
  /\ runs' = runs + 1
  /\ t2' = now
  /\ mpc' = "check"
  /\ UNCHANGED <<now, measure_start, measure_pause, trial, trials, result, spent,
                 pspent, events, trialBegin, pauseAt, pausedSum, npauses, recorded, unsorted>>
  /\ UNCHANGED visitVars

\* Mutant of LoopCond: the comparison is the wrong way round.
MutLoopCondGreater == t2 - measure_start > min_time_per_trial

\* The condition of line 35: t2-measure_start<min_time_per_trial
LoopCond == t2 - measure_start < min_time_per_trial

\* }while(...): the condition holds, f is called again (line 35)
LoopAgain ==
  /\ mpc = "check"
  /\ LoopCond
  /\ mpc' = "call"
  /\ UNCHANGED <<now, measure_start, measure_pause, trial, runs, t2, trials,
                 result, spent, pspent, events, trialBegin, pauseAt, pausedSum,
                 npauses, recorded, unsorted>>
  /\ UNCHANGED visitVars

\* duration_cast<duration<double>>(t2-measure_start).count()/runs  (line 36)
TrialAverage == Rat(t2 - measure_start, MsPerSecond * runs)

\* The condition fails: trials[i]=...; ++i; i<num_trials  (lines 35-37, 25)
Record ==
  /\ mpc = "check"
  /\ ~LoopCond
  /\ trials' = [trials EXCEPT ![trial + 1] = TrialAverage]
  /\ recorded' = Append(recorded, [runs |-> runs, elapsed |-> t2 - measure_start])
  /\ trial' = trial + 1
  /\ mpc' = IF trial + 1 < num_trials THEN "start" ELSE "sort"
  /\ UNCHANGED <<now, measure_start, measure_pause, runs, t2, result, spent,
                 pspent, events, trialBegin, pauseAt, pausedSum, npauses, unsorted>>
  /\ UNCHANGED visitVars

\* x put into the ascending sequence s, after the entries not greater than x.
RECURSIVE Insert(_, _)
Insert(s, x) ==
  IF s = <<>> THEN <<x>>
  ELSE IF RatLess(x, Head(s)) THEN <<x>> \o s
  ELSE <<Head(s)>> \o Insert(Tail(s), x)

RECURSIVE SortPrefix(_, _)
SortPrefix(s, n) == IF n = 0 THEN <<>> ELSE Insert(SortPrefix(s, n - 1), s[n])

\* Mutant of Sort: the trials are left in the order they were recorded in.
MutSortNone(s) == s

\* std::sort(trials.begin(),trials.end())  (line 39)
Sort(s) == SortPrefix(s, Len(s))

RECURSIVE Accumulate(_, _, _, _)
\* std::accumulate(first,last,init) over s[first..last-1] (1-based positions)
Accumulate(s, first, last, init) ==
  IF first >= last THEN init
  ELSE Accumulate(s, first + 1, last, RatAdd(init, s[first]))

\* std::accumulate(trials.begin()+2,trials.end()-2,0.0)/(trials.size()-4)
\* (lines 40-41), s the sorted trials
TrimmedMean(s) ==
  LET sum == Accumulate(s, 1 + Trim, Len(s) + 1 - Trim, Rat(0, 1))
  IN Rat(sum.num, sum.den * (Len(s) - 2 * Trim))

\* std::sort(...); return std::accumulate(...)/(trials.size()-4)  (lines 39-41)
Aggregate ==
  /\ mpc = "sort"
  /\ unsorted' = trials
  /\ trials' = Sort(trials)
  /\ result' = TrimmedMean(trials')
  /\ mpc' = "done"
  /\ UNCHANGED <<now, measure_start, measure_pause, trial, runs, t2, spent,
                 pspent, events, trialBegin, pauseAt, pausedSum, npauses, recorded>>
  /\ UNCHANGED visitVars

(***************************************************************************)
(* visit_test and visit_tester::operator().                                *)
(***************************************************************************)
NoOp == [op |-> "none", i |-> 0, res |-> 0, ncalls |-> 0]

\* What prev records when operation op starts on the visitor.
Before(op) == [op |-> op, i |-> visit.i, res |-> visit.res, ncalls |-> Len(calls)]

VisitInit ==
  /\ pc = "sweep"
  /\ sweep = 0
  /\ N = 0
  /\ m = {}
  /\ strategy = 1
  /\ runsDone = 0
  /\ gen = NewGen
  /\ stream = <<>>
  /\ idx = 0
  /\ visit = NewRegular
  /\ calls = <<>>
  /\ drawn = <<>>
  /\ wrote = -1
  /\ prev = NoOp
  /\ ndone = 0
  /\ ret = <<-1, -1>>
  /\ seqs = {}

\* for(auto N:{...}): a fresh map with the keys 0..N-1 (lines 148-151)
SweepNext ==
  /\ pc = "sweep"
  /\ sweep < MaxN
  /\ N' = sweep + 1
  /\ m' = 0..(N' - 1)
  /\ strategy' = 1
  /\ runsDone' = 0
  /\ pc' = "measure"
  /\ ret' = <<-1, -1>>
  /\ seqs' = {}
  /\ UNCHANGED <<sweep, gen, stream, idx, visit, calls, drawn, wrote, prev, ndone>>
  /\ UNCHANGED measureVars

\* Mutant of TesterEnter: the generator is not constructed anew, it goes on
\* from where the previous invocation left it.
MutTesterEnterKeepGen ==
  /\ pc = "measure"
  /\ runsDone < MaxRuns
  /\ gen' = gen
  /\ visit' = NewVisitor(strategy)
  /\ idx' = 0
  /\ calls' = <<>>
  /\ drawn' = <<>>
  /\ wrote' = -1
  /\ prev' = NoOp
  /\ pc' = "loop"
  /\ UNCHANGED <<sweep, N, m, strategy, runsDone, stream, ndone, ret, seqs>>
  /\ UNCHANGED measureVars

\* measure calls f(): visit_tester::operator() constructs gen and visit
\* (lines 131-132)
TesterEnter ==
  /\ pc = "measure"
  /\ runsDone < MaxRuns
  /\ gen' = NewGen
  /\ visit' = NewVisitor(strategy)
  /\ idx' = 0
  /\ calls' = <<>>
  /\ drawn' = <<>>
  /\ wrote' = -1
  /\ prev' = NoOp
  /\ pc' = "loop"
  /\ UNCHANGED <<sweep, N, m, strategy, runsDone, stream, ndone, ret, seqs>>
  /\ UNCHANGED measureVars

\* One step of the generator: gen() returns raw
Draw(raw) ==
  /\ raw \in GenOutputs(gen)
  /\ stream' = IF gen.n < Len(stream) THEN stream ELSE Append(stream, raw)
  /\ gen' = [gen EXCEPT !.n = @ + 1]

\* visit(gen): the visitor draws one key and handles it
CallVisitor ==
  \E raw \in 0..RngMax :
    /\ Draw(raw)
    /\ LET k == DistOfN(N, raw)
           w == VisitorCall(World(visit, calls, wrote), k)
       IN /\ visit' = w.v
          /\ calls' = w.log
          /\ wrote' = w.wrote
          /\ drawn' = Append(drawn, k)
          /\ prev' = Before("call")

\* visit.flush()
FlushVisitor ==
  LET w == VisitorFlush(World(visit, calls, wrote))
  IN /\ visit' = w.v
     /\ calls' = w.log
     /\ wrote' = w.wrote
     /\ prev' = Before("flush")

\* for(int i=0;i<N;++i)visit(gen);  one iteration (line 134)
TesterVisit ==
  /\ pc = "loop"
  /\ idx < N
  /\ CallVisitor
  /\ idx' = idx + 1
  /\ UNCHANGED <<pc, sweep, N, m, strategy, runsDone, ndone, ret, seqs>>
  /\ UNCHANGED measureVars

\* visit.flush(); return visit.res;  (lines 135-136), back in measure
TesterFlush ==
  /\ pc = "loop"
  /\ idx = N
  /\ FlushVisitor
  /\ ret' = [ret EXCEPT ![strategy] = visit'.res]
  /\ seqs' = seqs \cup {drawn}
  /\ runsDone' = runsDone + 1
  /\ pc' = "measure"
  /\ UNCHANGED <<sweep, N, m, strategy, gen, stream, idx, drawn, ndone>>
  /\ UNCHANGED measureVars

\* measure(...Visitor1...) returns, measure(...Visitor2...) starts (153-155)
MeasureNext ==
  /\ pc = "measure"
  /\ runsDone >= 1
  /\ strategy = 1
  /\ strategy' = 2
  /\ runsDone' = 0
  /\ UNCHANGED <<pc, sweep, N, m, gen, stream, idx, visit, calls, drawn, wrote,
                 prev, ndone, ret, seqs>>
  /\ UNCHANGED measureVars

\* measure(...Visitor2...) returns, the row is printed (155-156)
SweepDone ==
  /\ pc = "measure"
  /\ runsDone >= 1
  /\ strategy = 2
  /\ sweep' = sweep + 1
  /\ pc' = "sweep"
  /\ UNCHANGED <<N, m, strategy, runsDone, gen, stream, idx, visit, calls, drawn,
                 wrote, prev, ndone, ret, seqs>>
  /\ UNCHANGED measureVars

Init == VisitInit /\ MeasureIdle

Next == SweepNext \/ TesterEnter \/ TesterVisit \/ TesterFlush \/ MeasureNext
          \/ SweepDone

Spec == Init /\ [][Next]_vars

(***************************************************************************)
(* A bulk_visitor driven by any sequence of operator() and flush() calls.  *)
(***************************************************************************)
BulkInit ==
  /\ MeasureIdle
  /\ pc = "free"
  /\ sweep = 0
  /\ N \in 1..MaxN
  /\ m = 0..(N - 1)
  /\ strategy = 2
  /\ runsDone = 0
  /\ gen = NewGen
  /\ stream = <<>>
  /\ idx = 0
  /\ visit = NewBulk
  /\ calls = <<>>
  /\ drawn = <<>>
  /\ wrote = -1
  /\ prev = NoOp
  /\ ndone = 0
  /\ ret = <<-1, -1>>
  /\ seqs = {}

\* a caller calls visit(gen)
FreeCall ==
  /\ pc = "free"
  /\ ndone < MaxCalls
  /\ CallVisitor
  /\ ndone' = ndone + 1
  /\ UNCHANGED <<pc, sweep, N, m, strategy, runsDone, idx, ret, seqs>>
  /\ UNCHANGED measureVars

\* a caller calls visit.flush()
FreeFlush ==
  /\ pc = "free"
  /\ ndone < MaxCalls
  /\ FlushVisitor
  /\ ndone' = ndone + 1
  /\ UNCHANGED <<pc, sweep, N, m, strategy, runsDone, gen, stream, idx, drawn,
                 ret, seqs>>
  /\ UNCHANGED measureVars

NextBulk == FreeCall \/ FreeFlush

SpecBulk == BulkInit /\ [][NextBulk]_vars

(***************************************************************************)
(* One call of measure, f any operation that pairs its pause_timing and    *)
(* resume_timing calls.                                                    *)
(***************************************************************************)
NextMeasure == TrialStart \/ FCall \/ TickRunning \/ TickPaused \/ pause_timing
                 \/ resume_timing \/ FReturn \/ LoopAgain \/ Record \/ Aggregate

InitMeasure == VisitInit /\ MeasureInit

SpecMeasure == InitMeasure /\ [][NextMeasure]_vars

(***************************************************************************)
(* The end of measure (lines 39-41) on synthetic trial values.             *)
(***************************************************************************)
Example == <<1, 2, 3, 4, 5, 6, 7, 8, 9, 100>>

\* The example, started at its k-th entry, forwards or backwards.
ExampleOrders ==
  {[j \in 1..num_trials |-> Rat(Example[((j - 1 + k) % num_trials) + 1], 1)] :
     k \in 0..(num_trials - 1)}
  \cup
  {[j \in 1..num_trials |-> Rat(Example[((num_trials - j + k) % num_trials) + 1], 1)] :
     k \in 0..(num_trials - 1)}

SmallOrders == [1..num_trials -> {Rat(v, 1) : v \in 1..MaxTrialValue}]

\* All num_trials trials are recorded, with any of the synthetic values.
InitAgg ==
  /\ VisitInit
  /\ mpc = "sort"
  /\ now = 0
  /\ measure_start = 0
  /\ measure_pause = 0
  /\ trial = num_trials
  /\ runs = 0
  /\ t2 = Indeterminate
  /\ trials \in ExampleOrders \cup SmallOrders
  /\ result = Indeterminate
  /\ spent = 0
  /\ pspent = 0
  /\ events = 0
  /\ trialBegin = 0
  /\ pauseAt = 0
  /\ pausedSum = 0
  /\ npauses = 0
  /\ recorded = <<>>
  /\ unsorted = <<>>

NextAgg == Aggregate

SpecAgg == InitAgg /\ [][NextAgg]_vars

(***************************************************************************)
(* Properties of the visitors and of visit_tester.                         *)
(***************************************************************************)
RECURSIVE Concat(_)
Concat(ss) == IF ss = <<>> THEN <<>> ELSE Head(ss) \o Concat(Tail(ss))

\* The last invocation of visit_tester<bulk_visitor> has returned.
AfterBulkRun == pc = "measure" /\ strategy = 2 /\ runsDone >= 1

FullBatches == N \div BulkVisitSize
Remainder == N % BulkVisitSize

\* C1: for the same map and N, visit_tester<regular_visitor> and
\* visit_tester<bulk_visitor> return the same hit count.
C1_SameHitCount == (ret[1] # -1 /\ ret[2] # -1) => ret[1] = ret[2]

\* A bulk run over more than two batches that found some keys and missed others,
\* after a regular run.
C1_Witness ==
  /\ AfterBulkRun
  /\ N > 2 * BulkVisitSize
  /\ ret[1] = ret[2]
  /\ ret[2] > 0
  /\ ret[2] < N

\* C2 (original): k*C+r keys give k calls of C keys, then one call of r keys,
\* and no trailing call at all when r = 0.
C2_Original ==
  AfterBulkRun =>
    /\ Len(calls) = FullBatches + (IF Remainder = 0 THEN 0 ELSE 1)
    /\ \A j \in 1..Len(calls) :
         Len(calls[j]) = IF j <= FullBatches THEN BulkVisitSize ELSE Remainder

\* C2 (amended): k*C+r keys and one flush give k calls of C keys followed by
\* exactly one trailing call of r keys; when r = 0 the trailing call is still
\* issued, over an empty range.
C2_BatchCalls ==
  AfterBulkRun =>
    /\ Len(calls) = FullBatches + 1
    /\ \A j \in 1..FullBatches : Len(calls[j]) = BulkVisitSize
    /\ Len(calls[FullBatches + 1]) = Remainder

\* Two full batches and nothing left over: three calls, the last one empty.
C2_Witness ==
  /\ AfterBulkRun
  /\ FullBatches = 2
  /\ Remainder = 0
  /\ Len(calls) = 3
  /\ calls[3] = <<>>

\* C9: after the final flush the cursor is 0 and the bulk-visit calls, put
\* end to end, are the N keys drawn, in draw order; while the run is under
\* way the calls followed by the pending keys are the keys drawn so far.
C9_EveryKeyOnce ==
  /\ (visit.kind = "bulk" /\ pc \in {"loop", "measure"}) =>
        Concat(calls) \o KeysRange(visit) = drawn
  /\ AfterBulkRun => (visit.i = 0 /\ Concat(calls) = drawn /\ Len(drawn) = N)

\* A finished bulk run with full batches and a trailing partial batch.
C9_Witness ==
  /\ AfterBulkRun
  /\ FullBatches >= 2
  /\ Remainder > 0
  /\ visit.i = 0
  /\ Concat(calls) = drawn

\* C6: every invocation starts from a generator seeded anew and a fresh
\* visitor and draws one key per visitor call, so all the invocations for
\* one N, of either strategy, draw the same key sequence.
C6_SameKeys ==
  /\ Cardinality(seqs) <= 1
  /\ pc = "loop" => Len(drawn) = idx
  /\ (pc = "loop" /\ idx = 0) => (gen = NewGen /\ visit = NewVisitor(strategy))

\* Every invocation of both strategies is over, for a size of three or more.
C6_Witness ==
  /\ AfterBulkRun
  /\ runsDone = MaxRuns
  /\ N >= 3
  /\ seqs = {drawn}

\* C7 (original): every key drawn is in [0, 2N-1), and m holds 0..N-1.
C7_Original ==
  pc \in {"loop", "measure"} =>
    /\ \A j \in 1..Len(drawn) : drawn[j] >= 0 /\ drawn[j] < 2 * N - 1
    /\ m = 0..(N - 1)

\* C7 (amended): every key drawn is in the closed range [0, 2N-1], and m
\* holds 0..N-1.
C7_KeyRange ==
  pc \in {"loop", "measure"} =>
    /\ \A j \in 1..Len(drawn) : drawn[j] >= 0 /\ drawn[j] <= 2 * N - 1
    /\ m = 0..(N - 1)

\* The key 2N-1 is drawn, for a map of two keys or more.
C7_Witness ==
  /\ pc = "loop"
  /\ N >= 2
  /\ \E j \in 1..Len(drawn) : drawn[j] = 2 * N - 1

\* The last operation was a flush() that found the buffer empty.
FlushedEmpty == prev.op = "flush" /\ prev.i = 0

\* C3 (original): flush() on an empty buffer issues no visit call and leaves
\* res and the cursor unchanged.
C3_Original ==
  FlushedEmpty =>
    /\ Len(calls) = prev.ncalls
    /\ visit.res = prev.res
    /\ visit.i = prev.i

\* C3 (amended): flush() on an empty buffer leaves res and the cursor
\* unchanged; it issues one visit call, over an empty range.
C3_EmptyFlush ==
  FlushedEmpty =>
    /\ Len(calls) = prev.ncalls + 1
    /\ calls[Len(calls)] = <<>>
    /\ visit.res = prev.res
    /\ visit.i = prev.i

\* flush() on an empty buffer of a visitor that has found keys already.
C3_Witness == FlushedEmpty /\ prev.res > 0 /\ visit.res = prev.res

\* C10: between calls the cursor is in 0..bulk_visit_size-1, every write
\* keys[i++] is to an index of the array and no bulk-visit range is longer
\* than the array.
C10_BufferBound ==
  visit.kind = "bulk" =>
    /\ visit.i >= 0 /\ visit.i < BulkVisitSize
    /\ wrote >= -1 /\ wrote < BulkVisitSize
    /\ \A j \in 1..Len(calls) : Len(calls[j]) <= BulkVisitSize

\* The last slot of the array was written and the full buffer was visited.
C10_Witness ==
  /\ pc = "free"
  /\ wrote = BulkVisitSize - 1
  /\ visit.i = 0
  /\ prev.op = "call"
  /\ Len(calls) >= 2
  /\ Len(calls[Len(calls)]) = BulkVisitSize

(***************************************************************************)
(* Properties of measure, pause_timing and resume_timing.                  *)
(***************************************************************************)
\* C4: a trial's average is recorded only after f has run at least once and
\* t2 - measure_start has reached min_time_per_trial; this holds for each of
\* the num_trials trials.
C4_MinTimePerTrial ==
  /\ Len(recorded) = trial
  /\ \A j \in 1..Len(recorded) :
       recorded[j].runs >= 1 /\ recorded[j].elapsed >= min_time_per_trial
  /\ mpc \in {"sort", "done"} => Len(recorded) = num_trials

\* All trials are recorded; one of them took a single run that exceeded the
\* minimum on its own, another took several runs.
C4_Witness ==
  /\ mpc = "done"
  /\ \E j \in 1..num_trials :
       recorded[j].runs = 1 /\ recorded[j].elapsed > min_time_per_trial
  /\ \E j \in 1..num_trials : recorded[j].runs >= 2

\* C8: with paired pause_timing()/resume_timing() calls, the elapsed time
\* now - measure_start is the time since the trial started less the sum of
\* the paused intervals; pause_timing itself leaves measure_start alone.
C8_PausedTimeExcluded ==
  /\ mpc \in {"call", "in_f", "check"} =>
       now - measure_start = (now - trialBegin) - pausedSum
  /\ mpc = "paused" => measure_start = trialBegin + pausedSum

\* Two pauses of one clock step each were resumed in the same trial.
C8_Witness ==
  /\ mpc = "check"
  /\ npauses = 2
  /\ pausedSum = 2 * TickMs
  /\ t2 - measure_start = (now - trialBegin) - pausedSum

\* The values of s, each once.
Values(s) == {s[j] : j \in 1..Len(s)}

\* How many entries of s are less than x, and how many are x or less.
CountLess(s, x) == Cardinality({j \in 1..Len(s) : RatLess(s[j], x)})
CountLessEq(s, x) == Cardinality({j \in 1..Len(s) : ~RatLess(x, s[j])})

\* How many copies of x are left when the Trim smallest and the Trim largest
\* entries of s are taken away.
Kept(s, x) ==
  Cardinality({q \in (Trim + 1)..(Len(s) - Trim) :
                 CountLess(s, x) < q /\ q <= CountLessEq(s, x)})

RECURSIVE KeptSum(_, _)
KeptSum(s, vs) ==
  IF vs = {} THEN Rat(0, 1)
  ELSE LET x == CHOOSE y \in vs : TRUE
       IN RatAdd(Rat(x.num * Kept(s, x), x.den), KeptSum(s, vs \ {x}))

\* The mean of what is left of s, whatever the order of s.
KeptMean(s) ==
  LET sum == KeptSum(s, Values(s))
  IN Rat(sum.num, sum.den * (Len(s) - 2 * Trim))

\* C5: measure returns the mean of the num_trials - 4 = 6 values left when
\* the 2 smallest and the 2 largest trial averages are discarded, whatever
\* order the trials came in; any order of 1,...,9,100 gives 33/6.
C5_TrimmedMean ==
  mpc = "done" =>
    /\ Len(trials) - 2 * Trim = 6
    /\ result = KeptMean(unsorted)
    /\ (\A j \in 1..num_trials : \E q \in 1..num_trials :
          unsorted[q] = Rat(Example[j], 1)) => result = Rat(33, 6)

\* The example in descending order was aggregated to 11/2.
C5_Witness ==
  /\ mpc = "done"
  /\ unsorted = [j \in 1..num_trials |-> Rat(Example[num_trials + 1 - j], 1)]
  /\ result = Rat(11, 2)

====
